---- MODULE Spec2Model ----
(***************************************************************************)
(* flaskoidc: the request gate (_before_request), the token lifecycle     *)
(* callbacks (_fetch_token, _update_token) and the login / callback /     *)
(* logout views of FlaskOIDC, as a state machine over one browser client, *)
(* the token table and the clock.                                         *)
(*                                                                         *)
(* Strings that the code strips or splits are sequences of atoms: "/" and *)
(* "," are the separator characters, every other atom is a run of         *)
(* characters holding no separator.  Optional values (Python None) are    *)
(* sequences of length 0 or 1.                                            *)
(***************************************************************************)
EXTENDS Integers, Sequences, FiniteSets, TLC

VARIABLES
    config,     \* self.config: WHITELISTED_ENDPOINTS, REDIRECT_URI, OVERWRITE_REDIRECT_URI
    store,      \* the OAuth2Token table: user_id -> optional record
    session,    \* the client's session cookie: optional session["user"]["__id"]
    cookie,     \* the client's failed_authentication_url cookie (optional URL)
    now,        \* round(time.time())
    req,        \* the request just handled (optional)
    gate,       \* how _before_request ended for it
    inbound,    \* the inbound token _before_request selected (optional text)
    active,     \* auth_client.token at the end of the request (optional token)
    env,        \* the inputs of that request: the provider's answer, the failing calls
    gate_log,   \* the calls _before_request made, in order
    view_log,   \* the calls the view made after it, in order
    resp,       \* the response on its way to the client (optional), with the session it carries
    pending,    \* the redirect the client is following (optional location)
    threads,    \* concurrent requests of one identity: where each is in the lifecycle
    provider    \* the provider's side: the refresh tokens it accepts, what it issued last

vars ==
    <<config, store, session, cookie, now, req, env, gate, inbound, active,
      gate_log, view_log, resp, pending, threads, provider>>

(***************************************************************************)
(* Bounds of the model.                                                    *)
(***************************************************************************)
MaxTime == 1

(***************************************************************************)
(* Optional values and small helpers.                                      *)
(***************************************************************************)
None == <<>>
Some(x) == <<x>>

InSeq(x, s) == \E i \in 1..Len(s) : s[i] = x

Call(op, ok) == [op |-> op, ok |-> ok]

Calls(l, op) == Cardinality({i \in 1..Len(l) : l[i].op = op})

(***************************************************************************)
(* str.strip("/") and str.split(",").                                      *)
(***************************************************************************)
RECURSIVE LStrip(_)
LStrip(s) == IF s # <<>> /\ Head(s) = "/" THEN LStrip(Tail(s)) ELSE s

RECURSIVE RStrip(_)
RStrip(s) ==
    IF s # <<>> /\ s[Len(s)] = "/" THEN RStrip(SubSeq(s, 1, Len(s) - 1)) ELSE s

Strip(s) == RStrip(LStrip(s))

\* The position of the first "," of s.
FirstComma(s) ==
    CHOOSE i \in 1..Len(s) : s[i] = "," /\ \A j \in 1..(i - 1) : s[j] # ","

RECURSIVE Split(_)
Split(s) ==
    IF \A i \in 1..Len(s) : s[i] # ","
    THEN <<s>>
    ELSE CHOOSE items \in
            {<<item>> \o Split(rest) :
                <<item, rest>> \in {<<SubSeq(s, 1, FirstComma(s) - 1),
                                      SubSeq(s, FirstComma(s) + 1, Len(s))>>}} : TRUE

(***************************************************************************)
(* The values of the model.                                                *)
(***************************************************************************)
Users == {"u1", "u2"}

\* Paths of the host application and of the three views FlaskOIDC registers.
LoginPath == <<"/", "login">>

LogoutPath == <<"/", "logout">>

AppPaths ==
    {<<"/">>, <<"/", "health", "/">>, <<"/", "dash">>, <<"/", "api", "/", "v1">>,
     <<"/", "missing">>}

\* The host application's routes: path -> optional route name (None: no route, 404).
AppEndpoint(path) ==
    CASE path = <<"/">> -> Some(<<"index">>)
      [] path = <<"/", "health", "/">> -> Some(<<"health_check">>)
      [] path = <<"/", "dash">> -> Some(<<"dashboard">>)
      [] path = <<"/", "api", "/", "v1">> -> Some(<<"api">>)
      [] OTHER -> None

Configs ==
    { [WHITELISTED_ENDPOINTS |-> <<>>,
       REDIRECT_URI |-> <<"/", "cb">>,
       OVERWRITE_REDIRECT_URI |-> None],
      [WHITELISTED_ENDPOINTS |-> <<"health", ",", "dashboard">>,
       REDIRECT_URI |-> <<"/", "oidc", "/", "cb", "/">>,
       OVERWRITE_REDIRECT_URI |-> None],
      [WHITELISTED_ENDPOINTS |-> <<"health", ",">>,
       REDIRECT_URI |-> <<"/", "cb">>,
       OVERWRITE_REDIRECT_URI |-> Some(<<"/", "home">>)] }

USER_ID_FIELD == "email"

(***************************************************************************)
(* Token texts: what a header, form field or query parameter carries, and *)
(* json.loads on it.                                                       *)
(***************************************************************************)
EmptyText == [kind |-> "empty"]

GarbageText == [kind |-> "garbage"]

JsonText(obj) == [kind |-> "json", obj |-> obj]

json_loads(text) ==
    IF text.kind = "json" THEN [ok |-> TRUE, value |-> text.obj] ELSE [ok |-> FALSE]

\* Python truthiness of an optional string.
Truthy(opt) == opt # None /\ opt[1] # EmptyText

(***************************************************************************)
(* OAuth2Token: the token table.                                           *)
(***************************************************************************)
to_token(item) ==
    [access_token |-> item.access_token,
     token_type |-> item.token_type,
     refresh_token |-> item.refresh_token,
     expires_at |-> item.expires_at]

get(st, user_id) == st[user_id]

get_with_refresh_token(st, user_id) ==
    IF st[user_id] # None /\ st[user_id][1].refresh_token # None
    THEN st[user_id]
    ELSE None

save(st, user_id, fields) == [st EXCEPT ![user_id] = Some(fields)]

delete(st, user_id) == [st EXCEPT ![user_id] = None]

\* The record update_tokens works on: no user_id is passed, the record is found by
\* the refresh token, else by the access token.
update_target(st, refresh_token, access_token) ==
    {u \in Users :
        /\ st[u] # None
        /\ IF refresh_token # None
           THEN st[u][1].refresh_token = refresh_token
           ELSE st[u][1].access_token = access_token}

Merge(item, token) ==
    [item EXCEPT
        !.access_token = token.access_token,
        !.refresh_token = IF token.refresh_token # None THEN token.refresh_token ELSE @,
        !.expires_at = token.expires_at,
        !.expires_in = token.expires_in]

update_tokens(st, token, refresh_token, access_token) ==
    LET found == update_target(st, refresh_token, access_token)
    IN IF found = {}
       THEN [ok |-> FALSE, store |-> st, item |-> None]
       ELSE LET u == CHOOSE x \in found : TRUE
            IN [ok |-> TRUE,
                store |-> [st EXCEPT ![u] = Some(Merge(st[u][1], token))],
                item |-> Some(Merge(st[u][1], token))]

(***************************************************************************)
(* The OIDC provider, reached through auth_client.  What it answers is an  *)
(* input e of the request: e.provider_ok (the call succeeds), e.access and *)
(* e.refresh (the serials of the tokens it issues; e.refresh = None: no    *)
(* new refresh token), e.expires_in.  e.fails names the token-table calls  *)
(* that raise during the request.                                          *)
(***************************************************************************)
Issued(u, t, e) ==
    [access_token |-> <<u, e.access>>,
     refresh_token |-> IF e.refresh = None THEN None ELSE Some(<<u, e.refresh[1]>>),
     expires_at |-> t + e.expires_in,
     expires_in |-> e.expires_in,
     scope |-> "openid",
     token_type |-> "Bearer",
     id_token |-> u]

\* The result of a lifecycle callback: ok = FALSE is LoginRequiredError.
LoginRequired(st, l) == [ok |-> FALSE, token |-> None, store |-> st, log |-> l]

\* The result v of a callback, with the calls l made before it.
Prepend(l, v) == [v EXCEPT !.log = l \o v.log]

\* _update_token returns what update_tokens returned.
Updated(upd) ==
    [ok |-> upd.ok, token |-> upd.item, store |-> upd.store,
     log |-> <<Call("provider.refresh", TRUE), Call("store.update_tokens", upd.ok)>>]

\* fetch_access_token(refresh_token=..., grant_type="refresh_token"): the provider
\* refuses a request that carries no refresh token.
RefreshAccepted(refresh_token, e) == e.provider_ok /\ refresh_token # None

\* A variant of _update_token that asks the provider a second time when the first
\* refresh fails.
_update_token_retry(st, token, refresh_token, access_token, t, e) ==
    IF ~RefreshAccepted(refresh_token, e)
    THEN LoginRequired(st, <<Call("provider.refresh", FALSE),
                             Call("provider.refresh", FALSE)>>)
    ELSE Updated(update_tokens(st, Issued(refresh_token[1][1], t, e),
                               refresh_token, access_token))

_update_token(st, token, refresh_token, access_token, t, e) ==
    IF ~RefreshAccepted(refresh_token, e)
    THEN LoginRequired(st, <<Call("provider.refresh", FALSE)>>)
    ELSE IF "store.update_tokens" \in e.fails
    THEN LoginRequired(st, <<Call("provider.refresh", TRUE),
                             Call("store.update_tokens", FALSE)>>)
    ELSE Updated(update_tokens(st, Issued(refresh_token[1][1], t, e),
                               refresh_token, access_token))

\* A variant of the expiry test of _fetch_token that lets a token live through the
\* second it expires in.
Expired_strict(token_dict, t) == token_dict.expires_at < t

\* A variant that renews a token one second before it expires.
Expired_early(token_dict, t) == token_dict.expires_at <= t + 1

\* token_dict["expires_at"] <= _current_time
Expired(token_dict, t) == token_dict.expires_at <= t

\* A variant of RefreshStored that refreshes with the record get() returned, whether
\* or not it holds a refresh token.
RefreshStored_unchecked(st, user_id, t, e) ==
    LET d == to_token(get(st, user_id)[1])
    IN Prepend(<<Call("store.get_with_refresh_token", TRUE)>>,
               _update_token(st, d, d.refresh_token, d.access_token, t, e))

\* The expired branch of _fetch_token.
RefreshStored(st, user_id, t, e) ==
    IF "store.get_with_refresh_token" \in e.fails
    THEN LoginRequired(st, <<Call("store.get_with_refresh_token", FALSE)>>)
    ELSE LET twr == get_with_refresh_token(st, user_id) IN
         IF twr = None
         THEN LoginRequired(st, <<Call("store.get_with_refresh_token", TRUE)>>)
         ELSE LET d == to_token(twr[1])
              IN Prepend(<<Call("store.get_with_refresh_token", TRUE)>>,
                         _update_token(st, d, d.refresh_token, d.access_token, t, e))

_fetch_token(st, sess, t, e) ==
    IF sess = None
    THEN LoginRequired(st, <<>>)
    ELSE LET user_id == sess[1] IN
         IF "store.get" \in e.fails
         THEN LoginRequired(st, <<Call("store.get", FALSE)>>)
         ELSE LET token == get(st, user_id) IN
              IF token = None
              THEN LoginRequired(st, <<Call("store.get", TRUE)>>)
              ELSE LET token_dict == to_token(token[1]) IN
                   IF Expired(token_dict, t)
                   THEN Prepend(<<Call("store.get", TRUE)>>,
                                RefreshStored(st, user_id, t, e))
                   ELSE [ok |-> TRUE, token |-> Some(token_dict), store |-> st,
                         log |-> <<Call("store.get", TRUE)>>]

(***************************************************************************)
(* _before_request.                                                        *)
(***************************************************************************)
\* A variant of whitelisted_endpoints that does not add the authentication routes.
whitelisted_endpoints_bare(cfg) == cfg.WHITELISTED_ENDPOINTS

whitelisted_endpoints(cfg) ==
    cfg.WHITELISTED_ENDPOINTS
        \o <<",", "login", ",", "logout", ",">> \o Strip(cfg.REDIRECT_URI)

\* A variant of Whitelisted that compares the path alone, not the route name.
Whitelisted_path_only(cfg, r) ==
    InSeq(Strip(r.path), Split(whitelisted_endpoints(cfg)))

\* Lines 38-40.
Whitelisted(cfg, r) ==
    LET entries == Split(whitelisted_endpoints(cfg))
    IN \/ InSeq(Strip(r.path), entries)
       \/ r.endpoint # None /\ InSeq(r.endpoint[1], entries)

\* Lines 44-52: the token taken from the request.  error: the header is "Bearer "
\* with nothing after it and split(None, 1)[1] raises.
InboundToken(r) ==
    LET bearer == r.header # None /\ r.header[1].scheme = "Bearer"
        from_header == IF bearer THEN Some(r.header[1].cred) ELSE None
    IN IF bearer /\ r.header[1].cred = EmptyText
       THEN [error |-> TRUE, token |-> None]
       ELSE [error |-> FALSE,
             token |-> IF r.form # None THEN r.form
                       ELSE IF r.args # None THEN r.args
                       ELSE from_header]

GateResult(result, st, l, inb, act) ==
    [result |-> result, store |-> st, log |-> l, inbound |-> inb, active |-> act]

\* A variant of WithInbound that uses the inbound token whether or not the session
\* token resolved.
WithInbound_always(f, read, token, parsed) ==
    GateResult("pass", f.store, read \o f.log, token, Some(parsed))

\* Lines 61-69: f is what self.auth_client.token gave; the inbound token is used
\* when it raised.
WithInbound(f, read, token, parsed) ==
    GateResult("pass", f.store, read \o f.log, token,
               IF f.ok THEN f.token ELSE Some(parsed))

\* A variant of WithoutInbound that lets the error of the lifecycle callback escape.
WithoutInbound_uncaught(f, read, token) ==
    IF f.ok
    THEN GateResult("pass", f.store, read \o f.log, token, f.token)
    ELSE GateResult("error", f.store, read \o f.log, token, None)

\* Lines 71-79.
WithoutInbound(f, read, token) ==
    IF f.ok
    THEN GateResult("pass", f.store, read \o f.log, token, f.token)
    ELSE GateResult("redirect_logout", f.store, read \o f.log, token, None)

_before_request(cfg, r, st, sess, t, e) ==
    IF Whitelisted(cfg, r)
    THEN GateResult("pass", st, <<>>, None, None)
    ELSE LET inb == InboundToken(r)
             read == <<Call("request.token", ~inb.error)>>
         IN IF inb.error
            THEN GateResult("error", st, read, None, None)
            ELSE IF Truthy(inb.token)
            THEN LET parsed == json_loads(inb.token[1]) IN
                 IF ~parsed.ok \/ "expires_at" \notin DOMAIN parsed.value
                 THEN GateResult("error", st, read, inb.token, None)
                 ELSE IF parsed.value.expires_at <= t
                 THEN GateResult("abort401", st, read, inb.token, None)
                 ELSE WithInbound(_fetch_token(st, sess, t, e), read, inb.token,
                                  parsed.value)
            ELSE WithoutInbound(_fetch_token(st, sess, t, e), read, inb.token)

(***************************************************************************)
(* Responses, and the views registered in __init__.                        *)
(***************************************************************************)
Redirect(location) == [status |-> 302, location |-> Some(location), set_cookie |-> None]

Page(status) == [status |-> status, location |-> None, set_cookie |-> None]

\* resp.set_cookie('failed_authentication_url', url, httponly=True, samesite="Strict")
FailedUrlCookie(url) ==
    [value |-> url, httponly |-> TRUE, samesite |-> "Strict", expired |-> FALSE]

ViewResult(st, sess, l, response) ==
    [store |-> st, session |-> sess, log |-> l, resp |-> response]

unauthorized_redirect == Redirect(LogoutPath)

\* A variant of handle_http_exception with no handler registered for 401.
handle_http_exception_unregistered(code) == Page(code)

\* The framework's answer to abort(code): the handler registered for the code
\* (line 121), else the error page of the code.
handle_http_exception(code) ==
    IF code = 401 THEN unauthorized_redirect ELSE Page(code)

\* A view of the host application; e.handler = "abort401": it raises a 401.
view(st, sess, e) ==
    IF e.handler = "abort401"
    THEN ViewResult(st, sess, <<Call("handler", FALSE)>>, handle_http_exception(401))
    ELSE ViewResult(st, sess, <<Call("handler", TRUE)>>, Page(200))

\* A variant of login that drops the record of the session's identity.
login_forget(st, sess) ==
    ViewResult(IF sess # None THEN delete(st, sess[1]) ELSE st, sess,
               <<Call("provider.authorize_redirect", TRUE)>>, Redirect(<<"provider">>))

login(st, sess) ==
    ViewResult(st, sess, <<Call("provider.authorize_redirect", TRUE)>>,
               Redirect(<<"provider">>))

\* The identity assertion the provider returns for user u.
Claims(u, kind) ==
    CASE kind = "full" -> [sub |-> u, email |-> u]
      [] kind = "empty_field" -> [sub |-> u, email |-> ""]
      [] OTHER -> [sub |-> u]

\* user.get(USER_ID_FIELD)
ClaimOf(user, field) == IF field \in DOMAIN user THEN Some(user[field]) ELSE None

_db_keys ==
    {"access_token", "expires_in", "scope", "token_type", "refresh_token", "expires_at"}

db_token(token) == [k \in _db_keys |-> token[k]]

\* A variant of Persist that establishes the session before it saves the token.
Persist_session_first(cfg, st, sess, ck, user_id, token, e) ==
    IF "store.save" \in e.fails
    THEN ViewResult(st, Some(user_id),
                    <<Call("session.set", TRUE), Call("store.save", FALSE)>>, Page(500))
    ELSE ViewResult(save(st, user_id, db_token(token)), Some(user_id),
                    <<Call("session.set", TRUE), Call("store.save", TRUE)>>,
                    IF cfg.OVERWRITE_REDIRECT_URI # None
                    THEN Redirect(cfg.OVERWRITE_REDIRECT_URI[1])
                    ELSE IF ck # None THEN Page(500) ELSE Redirect(<<>>))

\* Lines 156-171 of auth: save the token, establish the session, answer.
Persist(cfg, st, sess, ck, user_id, token, e) ==
    IF "store.save" \in e.fails
    THEN ViewResult(st, sess, <<Call("store.save", FALSE)>>, Page(500))
    ELSE LET saved == save(st, user_id, db_token(token))
             done == <<Call("store.save", TRUE), Call("session.set", TRUE)>>
         IN IF cfg.OVERWRITE_REDIRECT_URI # None
            THEN ViewResult(saved, Some(user_id), done,
                            Redirect(cfg.OVERWRITE_REDIRECT_URI[1]))
            ELSE IF ck # None
            \* return resp.set_cookie(...): set_cookie returns None, the view returns
            \* no response and the framework answers 500.
            THEN ViewResult(saved, Some(user_id), done, Page(500))
            ELSE ViewResult(saved, Some(user_id), done, Redirect(<<>>))

auth(cfg, st, sess, ck, t, e) ==
    IF ~e.provider_ok
    THEN ViewResult(st, sess, <<Call("provider.authorize_access_token", FALSE)>>,
                    Page(500))
    ELSE LET token == Issued(e.user, t, e)
             exchanged == <<Call("provider.authorize_access_token", TRUE)>>
         IN IF ~e.parse_ok
            THEN ViewResult(st, sess,
                            exchanged \o <<Call("provider.parse_id_token", FALSE)>>,
                            Page(500))
            ELSE LET user == Claims(e.user, e.claims)
                     user_id == ClaimOf(user, USER_ID_FIELD)
                     parsed == exchanged \o <<Call("provider.parse_id_token", TRUE)>>
                 IN IF user_id = None \/ user_id[1] = ""
                    THEN ViewResult(st, sess, parsed, Page(400))
                    ELSE Prepend(parsed, Persist(cfg, st, sess, ck, user_id[1], token, e))

\* A variant of logout that clears the session before it looks for the identity.
logout_pop_first(st, sess, e) ==
    ViewResult(st, None, <<Call("session.pop", TRUE)>>, Redirect(LoginPath))

logout(st, sess, e) ==
    IF sess # None
    THEN IF "store.delete" \in e.fails
         THEN ViewResult(st, sess, <<Call("store.delete", FALSE)>>, Page(500))
         ELSE ViewResult(delete(st, sess[1]), None,
                         <<Call("store.delete", TRUE), Call("session.pop", TRUE)>>,
                         Redirect(LoginPath))
    ELSE ViewResult(st, None, <<Call("session.pop", TRUE)>>, Redirect(LoginPath))

(***************************************************************************)
(* Routing and the handling of one request: the gate, then the view.       *)
(***************************************************************************)
Endpoint(cfg, path) ==
    CASE path = LoginPath -> Some(<<"login">>)
      [] path = LogoutPath -> Some(<<"logout">>)
      [] path = cfg.REDIRECT_URI -> Some(<<"auth">>)
      [] OTHER -> AppEndpoint(path)

Request(cfg, path, header, form, args) ==
    [path |-> path, url |-> path, endpoint |-> Endpoint(cfg, path),
     header |-> header, form |-> form, args |-> args]

dispatch_request(cfg, r, st, sess, ck, t, e) ==
    CASE r.endpoint = None -> ViewResult(st, sess, <<>>, Page(404))
      [] r.endpoint = Some(<<"login">>) -> login(st, sess)
      [] r.endpoint = Some(<<"logout">>) -> logout(st, sess, e)
      [] r.endpoint = Some(<<"auth">>) -> auth(cfg, st, sess, ck, t, e)
      [] OTHER -> view(st, sess, e)

\* What the client is answered once the gate ended as g: the view's response, the
\* 401 handler's, the gate's redirect, or the framework's error page.
AfterGate(cfg, r, sess, ck, t, e, g) ==
    CASE g.result = "pass" -> dispatch_request(cfg, r, g.store, sess, ck, t, e)
      [] g.result = "abort401" ->
            ViewResult(g.store, sess, <<>>, handle_http_exception(401))
      [] g.result = "redirect_logout" ->
            ViewResult(g.store, sess, <<>>,
                [Redirect(LogoutPath) EXCEPT !.set_cookie = Some(FailedUrlCookie(r.url))])
      [] OTHER -> ViewResult(g.store, sess, <<>>, Page(500))

Outcome(g, v) ==
    [gate |-> g.result, inbound |-> g.inbound, active |-> g.active,
     store |-> v.store, gate_log |-> g.log, view_log |-> v.log,
     resp |-> [status |-> v.resp.status, location |-> v.resp.location,
               set_cookie |-> v.resp.set_cookie, session |-> v.session]]

Dispatched(cfg, r, sess, ck, t, e, g) ==
    Outcome(g, AfterGate(cfg, r, sess, ck, t, e, g))

full_dispatch_request(cfg, r, st, sess, ck, t, e) ==
    Dispatched(cfg, r, sess, ck, t, e, _before_request(cfg, r, st, sess, t, e))

\* The client's cookie jar after a response.
CookieAfter(ck, response) ==
    IF response.set_cookie = None THEN ck
    ELSE IF response.set_cookie[1].expired THEN None
    ELSE Some(response.set_cookie[1].value)

(***************************************************************************)
(* The inputs of a request.                                                *)
(***************************************************************************)
\* Structured tokens sent by other services; src tells the three sources apart.
InboundExpiries == {1, MaxTime + 1}

ServiceToken(src, x) == JsonText([access_token |-> <<"svc", src>>, expires_at |-> x])

\* Token values that are no structured token record: text that is not JSON, a JSON
\* object without expires_at, and the empty string.
Malformed ==
    {[header |-> None, form |-> None, args |-> Some(GarbageText)],
     [header |-> None, form |-> None,
      args |-> Some(JsonText([access_token |-> <<"svc", "args">>]))],
     [header |-> None, form |-> Some(EmptyText), args |-> None]}

Inbounds ==
    {[header |-> None, form |-> None, args |-> None]}
    \cup Malformed
    \cup {[header |-> IF hp THEN Some([scheme |-> "Bearer",
                                       cred |-> ServiceToken("header", x)])
                      ELSE None,
           form |-> IF fp THEN Some(ServiceToken("form", x)) ELSE None,
           args |-> IF qp THEN Some(ServiceToken("args", x)) ELSE None] :
            hp \in BOOLEAN, fp \in BOOLEAN, qp \in BOOLEAN, x \in InboundExpiries}

\* The lifetimes (expires_in, seconds) of the tokens the provider issues.
TokenLifetimes == {1}

\* The provider's answers.  It issues serials a1 / r1 at the callback and a2 / r2 at a
\* refresh; refresh = None: it sends no refresh token.
DefaultEnv ==
    [fails |-> {}, provider_ok |-> TRUE, access |-> "a1", refresh |-> None,
     expires_in |-> 1, user |-> "u1", claims |-> "full", parse_ok |-> TRUE,
     handler |-> "ok"]

\* What the provider may answer to a refresh.
RefreshAnswers ==
    {[DefaultEnv EXCEPT !.provider_ok = FALSE]}
    \cup {[DefaultEnv EXCEPT !.access = "a2", !.refresh = r, !.expires_in = x] :
            r \in {None, Some("r2")}, x \in TokenLifetimes}

\* What the provider may answer at the callback.
CallbackAnswers ==
    {[DefaultEnv EXCEPT !.provider_ok = FALSE], [DefaultEnv EXCEPT !.parse_ok = FALSE]}
    \cup {[DefaultEnv EXCEPT !.user = u, !.claims = k] :
            u \in Users, k \in {"no_field", "empty_field"}}
    \cup {[DefaultEnv EXCEPT !.user = u, !.refresh = r, !.expires_in = x] :
            u \in Users, r \in {None, Some("r1")}, x \in TokenLifetimes}

StoreOps ==
    {"store.get", "store.get_with_refresh_token", "store.update_tokens",
     "store.save", "store.delete"}

\* What the routed view may do once the gate ended as result: the api view of the
\* host application checks the caller itself and may raise a 401.
HandlerAnswers(r, result) ==
    IF result = "pass" /\ r.endpoint = Some(<<"api">>) THEN {"ok", "abort401"} ELSE {"ok"}

\* The token-table failures worth drawing for a request whose failure-free run makes
\* the calls l: none, or one of the calls it makes.
FailChoices(l) == {{}} \cup {{l[i].op} : i \in {j \in 1..Len(l) : l[j].op \in StoreOps}}

(***************************************************************************)
(* The state machine: the application handles a request of the client,    *)
(* the client receives the response and keeps the cookies it sets.        *)
(***************************************************************************)
\* The session cookie is kept by the client: it outlives the records of the table, so
\* a client may hold an identity that has no record.
Sessions == {None, Some("u1")}

Init ==
    /\ config \in Configs
    /\ store = [u \in Users |-> None]
    /\ session \in Sessions
    /\ cookie = None
    /\ now = 0
    /\ req = None
    /\ env = None
    /\ gate = "none"
    /\ inbound = None
    /\ active = None
    /\ gate_log = <<>>
    /\ view_log = <<>>
    /\ resp = None
    /\ pending = None
    /\ threads = <<>>
    /\ provider = None

\* The application handles request r under inputs e.
Handle(r, e) ==
    \E out \in {full_dispatch_request(config, r, store, session, cookie, now, e)} :
       /\ req' = Some(r)
       /\ env' = Some(e)
       /\ gate' = out.gate
       /\ inbound' = out.inbound
       /\ active' = out.active
       /\ gate_log' = out.gate_log
       /\ view_log' = out.view_log
       /\ resp' = Some(out.resp)
       /\ store' = out.store
       /\ UNCHANGED <<config, now, session, cookie, pending, threads, provider>>

\* A request to a path of the host application.  Failures and provider answers are
\* drawn only for the calls the request makes.
AppRequest ==
    /\ req = None
    /\ \E p \in AppPaths, i \in Inbounds :
          \E r \in {Request(config, p, i.header, i.form, i.args)} :
             \E probe \in {_before_request(config, r, store, session, now, DefaultEnv)} :
                \E fl \in FailChoices(probe.log) :
                   \E a \in (IF Calls(probe.log, "provider.refresh") > 0
                             THEN RefreshAnswers ELSE {DefaultEnv}) :
                      \E e \in {[a EXCEPT !.fails = fl]} :
                         \E h \in HandlerAnswers(r,
                                    _before_request(config, r, store, session, now,
                                                    e).result) :
                            Handle(r, [e EXCEPT !.handler = h])

LoginRequest ==
    /\ req = None
    /\ Handle(Request(config, LoginPath, None, None, None), DefaultEnv)

LogoutRequest ==
    /\ req = None
    /\ \E fl \in {{}, {"store.delete"}} :
          Handle(Request(config, LogoutPath, None, None, None),
                 [DefaultEnv EXCEPT !.fails = fl])

CallbackRequest ==
    /\ req = None
    /\ \E a \in CallbackAnswers, fl \in {{}, {"store.save"}} :
          Handle(Request(config, config.REDIRECT_URI, None, None, None),
                 [a EXCEPT !.fails = fl])

\* The response reaches the client: its cookies are the ones the response carries.
Deliver ==
    /\ resp # None
    /\ session' = resp[1].session
    /\ cookie' = CookieAfter(cookie, resp[1])
    /\ req' = None
    /\ env' = None
    /\ gate' = "none"
    /\ inbound' = None
    /\ active' = None
    /\ gate_log' = <<>>
    /\ view_log' = <<>>
    /\ resp' = None
    /\ UNCHANGED <<config, store, now, threads, provider>>

Receive ==
    /\ Deliver
    /\ UNCHANGED pending

Tick ==
    /\ req = None
    /\ now < MaxTime
    /\ now' = now + 1
    /\ UNCHANGED <<config, store, session, cookie, req, env, gate, inbound, active,
                   gate_log, view_log, resp, pending, threads, provider>>

Next ==
    AppRequest \/ LoginRequest \/ LogoutRequest \/ CallbackRequest \/ Receive \/ Tick

Spec == Init /\ [][Next]_vars

(***************************************************************************)
(* Properties.                                                             *)
(***************************************************************************)
\* The bypass names of a configuration: the items of WHITELISTED_ENDPOINTS, login,
\* logout and the callback path.
BypassNames(cfg) ==
    LET items == Split(cfg.WHITELISTED_ENDPOINTS)
    IN {items[i] : i \in 1..Len(items)}
       \cup {<<"login">>, <<"logout">>, Strip(cfg.REDIRECT_URI)}

Bypassed(cfg, r) ==
    \/ Strip(r.path) \in BypassNames(cfg)
    \/ r.endpoint # None /\ r.endpoint[1] \in BypassNames(cfg)

NoInboundSent(r) == r.header = None /\ r.form = None /\ r.args = None

Writes(l) ==
    Calls(l, "store.save") + Calls(l, "store.update_tokens") + Calls(l, "store.delete")

\* The gate handles a request that is not whitelisted and carries no token, for a
\* session whose stored record is rec, with the token table working.
SessionRequest ==
    /\ req = None
    /\ req' # None
    /\ ~Whitelisted(config, req'[1])
    /\ NoInboundSent(req'[1])
    /\ env'[1].fails = {}
    /\ session # None
    /\ store[session[1]] # None

StoredRecord == store[session[1]][1]

\* C1: a request whose stripped path or route name is a bypass name of the
\* configuration (an item of WHITELISTED_ENDPOINTS, login, logout, the callback path)
\* passes the gate, and the gate reads no inbound token, resolves no session token and
\* calls neither the token table nor the provider; the table changes only through the
\* view the request is routed to.
C1_WhitelistBypass ==
    [][(req' # None /\ Bypassed(config, req'[1])) =>
          /\ gate' = "pass"
          /\ gate_log' = <<>>
          /\ inbound' = None
          /\ active' = None
          /\ (req'[1].endpoint \notin {Some(<<"logout">>), Some(<<"auth">>)}
                => store' = store)]_vars

\* A request that carries tokens is let through by its route name alone.
C1_Witness ==
    /\ req # None
    /\ Strip(req[1].path) \notin BypassNames(config)
    /\ req[1].endpoint # None
    /\ req[1].endpoint[1] \in BypassNames(config)
    /\ req[1].header # None
    /\ req[1].form # None
    /\ session # None
    /\ gate = "pass"

\* C2: a request that is not whitelisted and carries no token, for a session whose
\* stored token has expires_at > now, passes the gate; the gate writes nothing to the
\* token table and does not call the provider.
C2_FreshSessionToken ==
    [][(SessionRequest /\ StoredRecord.expires_at > now) =>
          /\ gate' = "pass"
          /\ active' = Some(to_token(StoredRecord))
          /\ store' = store
          /\ Writes(gate_log') = 0
          /\ Calls(gate_log', "provider.refresh") = 0
          /\ Calls(view_log', "handler") = 1 \/ resp'[1].status = 404]_vars

C2_Witness ==
    /\ req # None
    /\ ~Whitelisted(config, req[1])
    /\ NoInboundSent(req[1])
    /\ session # None
    /\ gate = "pass"
    /\ gate_log = <<Call("request.token", TRUE), Call("store.get", TRUE)>>
    /\ view_log = <<Call("handler", TRUE)>>
    /\ resp[1].status = 200

\* The record a refresh must leave: the provider's access token and expiry, its
\* refresh token when it sent one and the stored one otherwise.
Refreshed(rec, u, t, e) ==
    [rec EXCEPT
        !.access_token = <<u, e.access>>,
        !.refresh_token = IF e.refresh = None THEN rec.refresh_token
                          ELSE Some(<<u, e.refresh[1]>>),
        !.expires_at = t + e.expires_in,
        !.expires_in = e.expires_in]

\* C3: a request that is not whitelisted and carries no token, for a session whose
\* stored token has expires_at <= now (equality included) and a refresh token: when
\* the provider accepts the refresh, the gate calls the provider exactly once, calls
\* update_tokens once, passes the request, and the stored record holds the provider's
\* tokens, keeping the stored refresh token when the provider sent none.
C3_ExpiredRefreshed ==
    [][(/\ SessionRequest
        /\ StoredRecord.expires_at <= now
        /\ StoredRecord.refresh_token # None
        /\ env'[1].provider_ok) =>
          /\ Calls(gate_log', "provider.refresh") = 1
          /\ Calls(gate_log', "store.update_tokens") = 1
          /\ gate' = "pass"
          /\ store' = [store EXCEPT ![session[1]] =
                          Some(Refreshed(StoredRecord, session[1], now, env'[1]))]]_vars

\* A refresh in the second the token expires, answered without a refresh token.
C3_Witness ==
    /\ req # None
    /\ NoInboundSent(req[1])
    /\ gate = "pass"
    /\ Calls(gate_log, "provider.refresh") = 1
    /\ env[1].refresh = None
    /\ session # None
    /\ store[session[1]] # None
    /\ store[session[1]][1].refresh_token = Some(<<session[1], "r1">>)
    /\ store[session[1]][1].access_token = <<session[1], "a2">>
    /\ store[session[1]][1].expires_at = now + 1

\* C4: a request that is not whitelisted and carries no token, for a session whose
\* stored token has expires_at <= now and no refresh token, is redirected to logout;
\* the gate does not call the provider and leaves the token table as it was.
C4_ExpiredNoRefreshToken ==
    [][(/\ SessionRequest
        /\ StoredRecord.expires_at <= now
        /\ StoredRecord.refresh_token = None) =>
          /\ gate' = "redirect_logout"
          /\ resp'[1].status = 302
          /\ resp'[1].location = Some(LogoutPath)
          /\ Calls(gate_log', "provider.refresh") = 0
          /\ Writes(gate_log') = 0
          /\ store' = store]_vars

C4_Witness ==
    /\ req # None
    /\ NoInboundSent(req[1])
    /\ session # None
    /\ store[session[1]] # None
    /\ store[session[1]][1].refresh_token = None
    /\ store[session[1]][1].expires_at <= now
    /\ gate = "redirect_logout"
    /\ gate_log = <<Call("request.token", TRUE), Call("store.get", TRUE),
                    Call("store.get_with_refresh_token", TRUE)>>

\* The tokens a request carries, and the first of them in the order header, form
\* field, query parameter.
SentTokens(r) ==
    {h.cred : h \in {x \in {r.header[i] : i \in 1..Len(r.header)} : x.scheme = "Bearer"}}
    \cup {r.form[i] : i \in 1..Len(r.form)}
    \cup {r.args[i] : i \in 1..Len(r.args)}

FirstPresent(r) ==
    IF r.header # None /\ r.header[1].scheme = "Bearer" THEN Some(r.header[1].cred)
    ELSE IF r.form # None THEN r.form
    ELSE r.args

\* C5: a request that is not whitelisted and carries a token with expires_at <= now is
\* answered with a 401; the token is not refreshed and neither the session nor the
\* token table changes.
C5_InboundExpiredRejected ==
    (/\ req # None
     /\ ~Whitelisted(config, req[1])
     /\ SentTokens(req[1]) # {}
     /\ \A tok \in SentTokens(req[1]) :
            /\ tok.kind = "json"
            /\ "expires_at" \in DOMAIN tok.obj
            /\ tok.obj.expires_at <= now) =>
        /\ resp[1].status = 401
        /\ Calls(gate_log, "provider.refresh") = 0
        /\ Writes(gate_log) = 0
        /\ resp[1].session = session

\* C6: the inbound token the gate selects is the first present of the Bearer header,
\* the access_token form field and the access_token query parameter.
C6_FirstSourceWins ==
    (req # None /\ ~Whitelisted(config, req[1])) => inbound = FirstPresent(req[1])

IsCallback(r) == r # None /\ r[1].endpoint = Some(<<"auth">>)

\* The callback cannot complete under inputs e: the exchange or the parsing of the
\* identity assertion fails, USER_ID_FIELD is absent or empty in the claims, or save
\* raises.
CallbackFails(e) ==
    LET user == Claims(e.user, e.claims)
    IN \/ ~e.provider_ok
       \/ ~e.parse_ok
       \/ USER_ID_FIELD \notin DOMAIN user
       \/ user[USER_ID_FIELD] = ""
       \/ "store.save" \in e.fails

\* C7: when the callback cannot complete, the client gets an error response and no
\* redirect, the token table is as it was and the session is as it was; whenever the
\* session is set, a successful save comes before it.
C7_CallbackAllOrNothing ==
    [][IsCallback(req') =>
          /\ CallbackFails(env'[1]) =>
                /\ resp'[1].status \in {400, 500}
                /\ resp'[1].location = None
                /\ store' = store
                /\ resp'[1].session = session
                /\ Calls(view_log', "session.set") = 0
          /\ \A j \in 1..Len(view_log') :
                view_log'[j].op = "session.set" =>
                    \E i \in 1..(j - 1) : view_log'[i] = Call("store.save", TRUE)]_vars

\* save raises in a callback while another identity holds the session and a record.
C7_Witness ==
    /\ IsCallback(req)
    /\ view_log[Len(view_log)] = Call("store.save", FALSE)
    /\ resp[1].status = 500
    /\ session # None
    /\ session[1] # env[1].user
    /\ store[session[1]] # None

\* C8: a callback that succeeds for a client holding the failed_authentication_url
\* cookie redirects to the URL in the cookie and clears the cookie when
\* OVERWRITE_REDIRECT_URI is unset, and redirects to the configured URL when it is set.
C8_OriginalUrlRoundTrip ==
    (IsCallback(req) /\ Calls(view_log, "session.set") = 1 /\ cookie # None) =>
        IF config.OVERWRITE_REDIRECT_URI = None
        THEN /\ resp[1].status = 302
             /\ resp[1].location = cookie
             /\ resp[1].set_cookie # None
             /\ resp[1].set_cookie[1].expired
        ELSE /\ resp[1].status = 302
             /\ resp[1].location = config.OVERWRITE_REDIRECT_URI

IsLogout(r) == r # None /\ r[1].endpoint = Some(<<"logout">>)

\* C9: logout with an identity in the session deletes that identity's record, then
\* clears the session, then redirects to login; with no identity it calls no delete
\* and redirects to login; whenever logout redirects, the session holds no identity.
C9_Logout ==
    [][IsLogout(req') =>
          /\ (session # None /\ env'[1].fails = {}) =>
                /\ view_log' = <<Call("store.delete", TRUE), Call("session.pop", TRUE)>>
                /\ store' = [store EXCEPT ![session[1]] = None]
          /\ session = None =>
                /\ Calls(view_log', "store.delete") = 0
                /\ store' = store
          /\ (session = None \/ env'[1].fails = {}) =>
                /\ resp'[1].status = 302
                /\ resp'[1].location = Some(LoginPath)
          /\ resp'[1].status = 302 => resp'[1].session = None]_vars

\* A logout that deleted the record of the session's identity and left another's.
C9_Witness ==
    /\ IsLogout(req)
    /\ session # None
    /\ store[session[1]] = None
    /\ \E u \in Users : store[u] # None
    /\ view_log = <<Call("store.delete", TRUE), Call("session.pop", TRUE)>>
    /\ resp[1].session = None

\* C10: when the provider fails a refresh, the lifecycle ends in LoginRequiredError (the
\* gate redirects a request without inbound token to logout, and falls back on the
\* inbound token otherwise), the provider was asked once, and the token table is as it
\* was.
C10_RefreshFailure ==
    [][(/\ req' # None
        /\ ~env'[1].provider_ok
        /\ Calls(gate_log', "provider.refresh") > 0) =>
          /\ Calls(gate_log', "provider.refresh") = 1
          /\ Calls(gate_log', "store.update_tokens") = 0
          /\ store' = store
          /\ ~Truthy(inbound') => gate' = "redirect_logout" /\ active' = None
          /\ Truthy(inbound') => gate' = "pass" /\ active' = Some(inbound'[1].obj)]_vars

C10_Witness ==
    /\ req # None
    /\ session # None
    /\ gate_log # <<>>
    /\ gate_log[Len(gate_log)] = Call("provider.refresh", FALSE)
    /\ gate = "redirect_logout"
    /\ store[session[1]] # None
    /\ store[session[1]][1].expires_at <= now

\* A call of the token table raised while the request was handled.
StorageFailed ==
    \E op \in env[1].fails : Calls(gate_log \o view_log, op) > 0

\* C11: when a call of the token table raises during a request, the request ends in
\* the framework's error response; the failure is not turned into a redirect to
\* logout and the request is not let through.
C11_StorageFailureFatal ==
    (req # None /\ StorageFailed) =>
        /\ resp[1].status = 500
        /\ resp[1].location = None
        /\ gate # "redirect_logout"

\* A 401 was raised while the request was handled: by the gate, or by the view the
\* request was routed to.
Raised401 ==
    \/ gate = "abort401"
    \/ gate = "pass" /\ InSeq(Call("handler", FALSE), view_log)

\* C12: a 401 raised by the gate or by a view is answered with a redirect to logout,
\* and no response has status 401.
C12_UnauthorizedRedirect ==
    (req # None) =>
        /\ resp[1].status # 401
        /\ Raised401 =>
              /\ resp[1].status = 302
              /\ resp[1].location = Some(LogoutPath)

\* A view raised a 401 for a request the gate let through on its session token.
C12_Witness ==
    /\ req # None
    /\ gate = "pass"
    /\ active # None
    /\ inbound = None
    /\ view_log = <<Call("handler", FALSE)>>
    /\ resp[1].location = Some(LogoutPath)

\* C13: for every request, _before_request ends by letting the request through, by
\* rejecting it with a 401 or by redirecting it to logout.
C13_GateTerminal ==
    (req # None) => gate \in {"pass", "abort401", "redirect_logout"}

\* The request handled in this step is not whitelisted and the token the gate took
\* from it is a structured record with expires_at > now.
InboundValidRequest ==
    /\ req = None
    /\ req' # None
    /\ ~Whitelisted(config, req'[1])
    /\ inbound' # None
    /\ inbound'[1].kind = "json"
    /\ "expires_at" \in DOMAIN inbound'[1].obj
    /\ inbound'[1].obj.expires_at > now

\* The session-bound token resolves under inputs e: the session holds an identity, its
\* record exists and is either fresh or refreshable, and no call made on the way raises.
SessionResolves(e) ==
    /\ session # None
    /\ store[session[1]] # None
    /\ "store.get" \notin e.fails
    /\ \/ store[session[1]][1].expires_at > now
       \/ /\ store[session[1]][1].refresh_token # None
          /\ e.provider_ok
          /\ "store.get_with_refresh_token" \notin e.fails
          /\ "store.update_tokens" \notin e.fails

\* C14: a request that is not whitelisted and carries a token with expires_at > now
\* is let through; the active credential is the session-bound token when that one
\* resolves and the inbound token exactly when it does not; the inbound token is not
\* written to the token table, which changes only by the refresh of the session's record.
C14_InboundAdoption ==
    [][InboundValidRequest =>
          /\ gate' = "pass"
          /\ Calls(view_log', "handler") = 1 \/ resp'[1].status = 404
          /\ SessionResolves(env'[1]) =>
                /\ active' # None
                /\ active'[1].access_token = store'[session[1]][1].access_token
                /\ active'[1].expires_at = store'[session[1]][1].expires_at
                /\ active' # Some(inbound'[1].obj)
          /\ ~SessionResolves(env'[1]) =>
                /\ active' = Some(inbound'[1].obj)
                /\ store' = store
          /\ \A u \in Users :
                /\ store'[u] # None =>
                      store'[u][1].access_token # inbound'[1].obj.access_token
                /\ store'[u] # store[u] =>
                      /\ session = Some(u)
                      /\ Calls(gate_log', "store.update_tokens") = 1]_vars

\* The inbound token is adopted for a client whose identity has a record that can no
\* longer be refreshed.
C14_Witness ==
    /\ req # None
    /\ gate = "pass"
    /\ inbound # None
    /\ inbound[1].kind = "json"
    /\ active = Some(inbound[1].obj)
    /\ session # None
    /\ store[session[1]] # None
    /\ store[session[1]][1].expires_at <= now
    /\ view_log = <<Call("handler", TRUE)>>

\* C15: a request that is not whitelisted and carries no token, whose session-bound
\* token does not resolve (no identity, no record, expired without refresh token,
\* refresh rejected, or a table call raising), is answered by the gate with a redirect
\* to logout that sets the http-only, same-site-strict cookie failed_authentication_url
\* to the requested URL; no view runs and the token table is left as it was.
C15_RedirectOnFailure ==
    [][(/\ req = None
        /\ req' # None
        /\ ~Whitelisted(config, req'[1])
        /\ NoInboundSent(req'[1])
        /\ ~SessionResolves(env'[1])) =>
          /\ gate' = "redirect_logout"
          /\ resp'[1].status = 302
          /\ resp'[1].location = Some(LogoutPath)
          /\ resp'[1].set_cookie =
                Some([value |-> req'[1].url, httponly |-> TRUE,
                      samesite |-> "Strict", expired |-> FALSE])
          /\ view_log' = <<>>
          /\ store' = store]_vars

\* The session holds an identity that has no record.
C15_Witness ==
    /\ req # None
    /\ NoInboundSent(req[1])
    /\ session # None
    /\ store[session[1]] = None
    /\ gate = "redirect_logout"
    /\ gate_log = <<Call("request.token", TRUE), Call("store.get", TRUE)>>
    /\ resp[1].set_cookie # None
    /\ resp[1].set_cookie[1].value = req[1].url

\* The step is a callback that saved the token the provider issued for u.
CreatedBy(u) ==
    /\ IsCallback(req')
    /\ ~CallbackFails(env'[1])
    /\ env'[1].user = u
    /\ InSeq(Call("store.save", TRUE), view_log')
    /\ store'[u] = Some(db_token(Issued(u, now, env'[1])))

\* The step is a request of u's session whose gate refreshed u's expired record.
RefreshedBy(u) ==
    /\ session = Some(u)
    /\ store[u] # None
    /\ store[u][1].expires_at <= now
    /\ env'[1].provider_ok
    /\ InSeq(Call("store.update_tokens", TRUE), gate_log')
    /\ store'[u] = Some(Refreshed(store[u][1], u, now, env'[1]))

\* The step is a logout of u's session that deleted u's record.
RemovedBy(u) ==
    /\ IsLogout(req')
    /\ session = Some(u)
    /\ InSeq(Call("store.delete", TRUE), view_log')
    /\ store'[u] = None

\* C18: in every step, a record of the token table that changes is the record of the
\* identity the callback saved (created or superseded by save), the record of the
\* session's identity refreshed by a successful update_tokens, or the record of the
\* session's identity deleted by logout; a request that is whitelisted for a view of
\* the host application, a login, a request the gate rejects, redirects or fails on,
\* and a callback that cannot complete leave the whole table as it was.
C18_RecordLifecycle ==
    [][/\ \A u \in Users :
             store'[u] # store[u] => CreatedBy(u) \/ RefreshedBy(u) \/ RemovedBy(u)
       /\ (/\ req' # None
           /\ \/ gate' \in {"abort401", "redirect_logout", "error"}
              \/ req'[1].endpoint = Some(<<"login">>)
              \/ IsCallback(req') /\ CallbackFails(env'[1])
              \/ /\ Bypassed(config, req'[1])
                 /\ req'[1].endpoint \notin {Some(<<"logout">>), Some(<<"auth">>)}
              \/ session = None /\ ~IsCallback(req'))
          => store' = store]_vars

\* A refresh changed the record of the session's identity and left the other one.
C18_Witness ==
    /\ req # None
    /\ session # None
    /\ InSeq(Call("store.update_tokens", TRUE), gate_log)
    /\ store[session[1]] # None
    /\ store[session[1]][1].access_token = <<session[1], "a2">>
    /\ \E u \in Users :
          /\ u # session[1]
          /\ store[u] # None
          /\ store[u][1].access_token = <<u, "a1">>
          /\ store[u][1].expires_at <= now

\* The request matches a bypass entry that is a name: a non-empty item of
\* WHITELISTED_ENDPOINTS, login, logout or the callback path.
NamedBypass(cfg, r) ==
    LET names == BypassNames(cfg) \ {<<>>}
    IN \/ Strip(r.path) \in names
       \/ r.endpoint # None /\ r.endpoint[1] \in names

\* C20: a request that _before_request lets through to a view either matches a
\* non-empty bypass entry, or has an active credential with expires_at > now.
C20_GateSound ==
    (req # None /\ gate = "pass" /\ Calls(view_log, "handler") = 1) =>
        \/ NamedBypass(config, req[1])
        \/ active # None /\ active[1].expires_at > now

(***************************************************************************)
(* A client that follows the redirects it is given.                        *)
(***************************************************************************)
\* The records a table may hold for u when the client comes back: issued by an
\* earlier login, expired or still fresh, with or without refresh token.
EarlierRecords(u, t) ==
    {db_token(Issued(u, at, [DefaultEnv EXCEPT !.refresh = r])) :
        at \in {0, t}, r \in {None, Some("r1")}}

FollowRecords == UNION {EarlierRecords(u, MaxTime) : u \in Users}

FollowInit ==
    /\ config \in Configs
    /\ now = MaxTime
    /\ session \in Sessions
    /\ store \in {st \in [Users -> {None} \cup {Some(rec) : rec \in FollowRecords}] :
                     \A u \in Users : st[u] # None => st[u][1].access_token[1] = u}
    /\ cookie = None
    /\ req = None
    /\ env = None
    /\ gate = "none"
    /\ inbound = None
    /\ active = None
    /\ gate_log = <<>>
    /\ view_log = <<>>
    /\ resp = None
    /\ pending = None
    /\ threads = <<>>
    /\ provider = None

\* The client asks for a page of the host application.
Visit ==
    /\ req = None
    /\ pending = None
    /\ \E p \in AppPaths, a \in RefreshAnswers :
          Handle(Request(config, p, None, None, None), a)

\* The client requests the location it was redirected to.
Follow ==
    /\ req = None
    /\ pending # None
    /\ pending[1] # <<"provider">>
    /\ \E r \in {Request(config, pending[1], None, None, None)} : Handle(r, DefaultEnv)

\* The client receives a response; a redirect is followed next.
FollowReceive ==
    /\ Deliver
    /\ pending' = IF resp[1].status = 302 THEN resp[1].location ELSE None

FollowNext == Visit \/ Follow \/ FollowReceive

\* The browser follows every redirect and the application answers every request.
FollowSpec ==
    FollowInit /\ [][FollowNext]_vars /\ WF_vars(Follow) /\ WF_vars(FollowReceive)

\* The gate has redirected a request of a client whose session is s.
Redirected(s) == gate = "redirect_logout" /\ session = s

\* The client is at the provider's authorization page, with no identity in its session
\* and no record left for the identity s it had.
Reauthenticating(s) ==
    /\ pending = Some(<<"provider">>)
    /\ session = None
    /\ s # None => store[s[1]] = None

\* C19: a client that the gate redirects and that follows its redirects reaches the
\* provider's authorization redirect, with its session cleared and the record of the
\* identity it held deleted; the gate lets every login and logout request through.
C19_Reauthentication ==
    /\ \A s \in Sessions : Redirected(s) ~> Reauthenticating(s)
    /\ [](req # None /\ req[1].endpoint \in {Some(<<"login">>), Some(<<"logout">>)}
            => gate = "pass")

\* The login request that ends the chain, for a client whose record was stale.
C19_Witness ==
    /\ req # None
    /\ req[1].endpoint = Some(<<"login">>)
    /\ pending = Some(LoginPath)
    /\ cookie # None
    /\ session = None
    /\ store["u1"] = None
    /\ store["u2"] # None
    /\ resp[1].location = Some(<<"provider">>)

(***************************************************************************)
(* Concurrent requests of one identity.  Each call of _fetch_token and     *)
(* _update_token to the token table or to the provider is one step, so the *)
(* requests interleave between the calls.  The provider keeps the refresh  *)
(* tokens it accepts; a rotating provider replaces the refresh token at    *)
(* every refresh and accepts each one once.                                *)
(***************************************************************************)
Threads == {"A", "B"}

Thread(pc, user, seen, held, new, act) ==
    [pc |-> pc, user |-> user, seen |-> seen, held |-> held, new |-> new,
     active |-> act]

\* What the provider answers to a refresh with refresh_token, as inputs of the request.
ProviderEnv(pv, refresh_token) ==
    [DefaultEnv EXCEPT
        !.provider_ok = refresh_token # None /\ refresh_token[1] \in pv.valid,
        !.access = pv.serial + 1,
        !.refresh = IF pv.rotating THEN Some(pv.serial + 1) ELSE None]

\* The provider after it issued token for refresh_token.
ProviderAfter(pv, refresh_token, token) ==
    [pv EXCEPT
        !.serial = @ + 1,
        !.valid = IF pv.rotating
                  THEN (@ \ {refresh_token[1]}) \cup {token.refresh_token[1]}
                  ELSE @,
        !.latest = Some(token)]

\* The record an earlier login left for u: issued at time at, serial 1.
LoginRecord(u, at, with_refresh) ==
    db_token(Issued(u, at, [DefaultEnv EXCEPT
                               !.access = 1,
                               !.refresh = IF with_refresh THEN Some(1) ELSE None]))

RaceInit ==
    /\ config = CHOOSE cfg \in Configs : cfg.WHITELISTED_ENDPOINTS = <<>>
    /\ now = MaxTime
    /\ session = Some("u1")
    /\ \E at \in {MaxTime - 1, MaxTime}, with_refresh \in BOOLEAN, rotating \in BOOLEAN :
          /\ store = [u \in Users |->
                        IF u = "u1" THEN Some(LoginRecord(u, at, with_refresh)) ELSE None]
          /\ provider = [rotating |-> rotating,
                         valid |-> IF with_refresh THEN {<<"u1", 1>>} ELSE {},
                         serial |-> 1,
                         latest |-> Some(LoginRecord("u1", at, with_refresh))]
    /\ threads = [t \in Threads |-> Thread("start", None, None, None, None, None)]
    /\ cookie = None
    /\ req = None
    /\ env = None
    /\ gate = "none"
    /\ inbound = None
    /\ active = None
    /\ gate_log = <<>>
    /\ view_log = <<>>
    /\ resp = None
    /\ pending = None

RaceFrame ==
    UNCHANGED <<config, cookie, now, req, env, gate, inbound, active, gate_log,
                view_log, resp, pending>>

\* Lines 237-245, 254: the identity of the session, its record, the expiry test.
Fetch(t) ==
    /\ threads[t].pc = "start"
    /\ threads' = [threads EXCEPT ![t] =
          IF session = None \/ get(store, session[1]) = None
          THEN [@ EXCEPT !.pc = "failed"]
          ELSE LET token_dict == to_token(get(store, session[1])[1])
               IN [@ EXCEPT !.pc = IF Expired(token_dict, now) THEN "expired" ELSE "allowed",
                            !.user = session,
                            !.seen = Some(token_dict),
                            !.active = IF Expired(token_dict, now) THEN None
                                       ELSE Some(token_dict)]]
    /\ UNCHANGED <<store, session, provider>>
    /\ RaceFrame

\* Lines 246-250.
GetRefreshToken(t) ==
    /\ threads[t].pc = "expired"
    /\ threads' = [threads EXCEPT ![t] =
          IF get_with_refresh_token(store, threads[t].user[1]) = None
          THEN [@ EXCEPT !.pc = "failed"]
          ELSE [@ EXCEPT !.pc = "refreshing",
                         !.held = Some(to_token(
                                     get_with_refresh_token(store, threads[t].user[1])[1]))]]
    /\ UNCHANGED <<store, session, provider>>
    /\ RaceFrame

\* Line 223: fetch_access_token with the refresh token read from the table.
ProviderRefresh(t) ==
    /\ threads[t].pc = "refreshing"
    /\ \E e \in {ProviderEnv(provider, threads[t].held[1].refresh_token)} :
          IF RefreshAccepted(threads[t].held[1].refresh_token, e)
          THEN \E token \in {Issued(threads[t].user[1], now, e)} :
                  /\ threads' = [threads EXCEPT ![t].pc = "persisting",
                                                ![t].new = Some(token)]
                  /\ provider' = ProviderAfter(provider,
                                               threads[t].held[1].refresh_token, token)
          ELSE /\ threads' = [threads EXCEPT ![t].pc = "failed"]
               /\ UNCHANGED provider
    /\ UNCHANGED <<store, session>>
    /\ RaceFrame

\* Lines 224-226: update_tokens, keyed by the refresh token read before the refresh.
PersistRefresh(t) ==
    /\ threads[t].pc = "persisting"
    /\ \E upd \in {update_tokens(store, threads[t].new[1],
                                 threads[t].held[1].refresh_token,
                                 threads[t].held[1].access_token)} :
          /\ store' = upd.store
          /\ threads' = [threads EXCEPT
                            ![t].pc = IF upd.ok THEN "allowed" ELSE "failed",
                            ![t].active = upd.item]
    /\ UNCHANGED <<session, provider>>
    /\ RaceFrame

\* The gate answered the failed request with the redirect to logout (lines 77-79); the
\* client follows it and logout runs with the session the client holds now.
FollowLogout(t) ==
    /\ threads[t].pc = "failed"
    /\ \E v \in {logout(store, session, DefaultEnv)} :
          /\ store' = v.store
          /\ session' = v.session
    /\ threads' = [threads EXCEPT ![t].pc = "logged_out"]
    /\ UNCHANGED provider
    /\ RaceFrame

\* logout redirected to login, login redirects to the provider (line 128).
FollowLogin(t) ==
    /\ threads[t].pc = "logged_out"
    /\ threads' = [threads EXCEPT ![t].pc = "at_provider"]
    /\ UNCHANGED <<store, session, provider>>
    /\ RaceFrame

\* A view of the allowed request makes an outbound call; the protocol client renews
\* the token itself with the refresh token it holds.
Renew(t) ==
    /\ threads[t].pc = "allowed"
    /\ threads[t].active # None
    /\ threads[t].active[1].refresh_token # None
    /\ \E e \in {ProviderEnv(provider, threads[t].active[1].refresh_token)} :
          IF RefreshAccepted(threads[t].active[1].refresh_token, e)
          THEN \E token \in {Issued(threads[t].user[1], now, e)} :
                  /\ threads' = [threads EXCEPT ![t].pc = "renewed",
                                                ![t].new = Some(token)]
                  /\ provider' = ProviderAfter(provider,
                                               threads[t].active[1].refresh_token, token)
          ELSE /\ threads' = [threads EXCEPT ![t].pc = "done"]
               /\ UNCHANGED provider
    /\ UNCHANGED <<store, session>>
    /\ RaceFrame

\* The protocol client then calls update_token (registered at line 102) with the new
\* token, the refresh token it used and the old access token.
UpdateCallback(t) ==
    /\ threads[t].pc = "renewed"
    /\ \E e \in {ProviderEnv(provider, threads[t].active[1].refresh_token)} :
          /\ \E u \in {_update_token(store, threads[t].new[1],
                                     threads[t].active[1].refresh_token,
                                     threads[t].active[1].access_token, now, e)} :
                /\ store' = u.store
                /\ threads' = [threads EXCEPT
                                  ![t].pc = IF u.ok THEN "updated" ELSE "update_failed"]
          /\ provider' =
                IF RefreshAccepted(threads[t].active[1].refresh_token, e)
                THEN ProviderAfter(provider, threads[t].active[1].refresh_token,
                                   Issued(threads[t].user[1], now, e))
                ELSE provider
    /\ UNCHANGED session
    /\ RaceFrame

RaceNext ==
    \E t \in Threads :
        \/ Fetch(t)
        \/ GetRefreshToken(t)
        \/ ProviderRefresh(t)
        \/ PersistRefresh(t)
        \/ FollowLogout(t)
        \/ FollowLogin(t)
        \/ Renew(t)
        \/ UpdateCallback(t)

RaceSpec == RaceInit /\ [][RaceNext]_vars

\* The table holds for u the token the provider issued last.
StoreIsLatest(u) ==
    /\ store[u] # None
    /\ provider.latest # None
    /\ store[u][1].access_token = provider.latest[1].access_token
    /\ store[u][1].expires_at = provider.latest[1].expires_at

\* C16: under a rotating provider, when two requests of one identity have both seen
\* the same expired token, have both gone on to refresh it, and each has run to its
\* end (allowed, or redirected and followed through logout and login), the table holds
\* the record of the last successful refresh.
C16_RefreshRace ==
    (/\ provider.rotating
     /\ \A t \in Threads :
           /\ threads[t].pc \in {"allowed", "at_provider"}
           /\ threads[t].seen # None
           /\ Expired(threads[t].seen[1], now)
           /\ threads[t].held # None
     /\ threads["A"].seen = threads["B"].seen)
        => StoreIsLatest("u1")

\* C17: once the update callback has returned or failed, the table holds the token the
\* provider issued last for the identity.
C17_UpdateKeepsStore ==
    \A t \in Threads :
        threads[t].pc \in {"updated", "update_failed"} => StoreIsLatest(threads[t].user[1])

====
